---- MODULE Spec2Model ----
(***************************************************************************)
(* Model of approx_pearson_skew (src/src/lib.rs): next_min, kth_ind,       *)
(* median, mean, std_dev_pop and pearson_skew_median over an immutable     *)
(* byte slice.                                                             *)
(*                                                                         *)
(* Indices are the 0-based indices of the Rust code; At(s, i) reads        *)
(* s[i].  Option<T> is a sequence of length 0 (None) or 1 (Some(x)).       *)
(* Rational (f32) values are exact fractions [num, den]; every value the   *)
(* model produces (bytes, sums of a few bytes, halves) is exactly          *)
(* representable in f32.  The approximate square root of micromath is an   *)
(* uninterpreted application [sqrt_of |-> x].                              *)
(***************************************************************************)
EXTENDS Integers, Sequences, FiniteSets

VARIABLES
    slice,    \* the borrowed input &[Word]; never written
    fn,       \* the public function called last ("none" before the first call)
    pc,       \* position inside that function
    k,        \* rank: argument of kth_ind, local of median
    prev,     \* sentinel argument of next_min
    items,    \* local of kth_ind / median
    v_items,  \* local of median
    v_ind,    \* local of kth_ind / median
    p_ind,    \* local of median
    med,      \* local of median, then of pearson_skew_median
    k_l_v,    \* local of median: the value read through p_ind, if read
    avg,      \* argument of std_dev_pop, local of pearson_skew_median
    iters,    \* number of iterations of the running while loop
    calls,    \* functions entered by the running pearson_skew_median
    last,     \* the next_min call made right before this one, if any
    ret       \* value returned by the last completed call

vars == <<slice, fn, pc, k, prev, items, v_items, v_ind, p_ind, med, k_l_v,
          avg, iters, calls, last, ret>>

----------------------------------------------------------------------------
(* Bounds *)
MaxLen == 4
MaxLow == 2

(* Program constants: Word::max_value() of u8, and 2^w for usize.  The     *)
(* width of usize depends on the target; the narrowest one is taken.       *)
WordMax == 255
UsizeModulus == 65536

MaxK == MaxLen + 1
IterCap == MaxLen + 2

Words == (0 .. MaxLow) \cup {WordMax}

Slices == UNION {[1 .. n -> Words] : n \in 0 .. MaxLen}

----------------------------------------------------------------------------
(* Option, indexing, Rational *)
None == <<>>
Some(x) == <<x>>
Unwrap(o) == o[1]

At(s, i) == s[i + 1]

Rat(n, d) == [num |-> n, den |-> d]
RatEq(x, y) == x.num * y.den = y.num * x.den
RECURSIVE Gcd(_, _)
Gcd(a, b) == IF b = 0 THEN a ELSE Gcd(b, a % b)
Lcm(a, b) == (a \div Gcd(a, b)) * b
RatAdd(x, y) ==
    LET l == Lcm(x.den, y.den)
    IN  Rat(x.num * (l \div x.den) + y.num * (l \div y.den), l)
RatSub(x, y) == RatAdd(x, Rat(0 - y.num, y.den))
RatMul(x, y) == Rat(x.num * y.num, x.den * y.den)
RatDivInt(x, n) == Rat(x.num, x.den * n)
AsRational(e) == Rat(e, 1)

Sqrt(x) == [sqrt_of |-> x]

(* usize subtraction: exact when it fits; on underflow the build either    *)
(* panics (overflow checks on) or wraps (overflow checks off).             *)
SubUsize(a, b) ==
    IF a >= b THEN {[panic |-> FALSE, val |-> a - b]}
    ELSE {[panic |-> TRUE, val |-> 0],
          [panic |-> FALSE, val |-> a - b + UsizeModulus]}

----------------------------------------------------------------------------
(* mean *)
RECURSIVE SumFold(_, _, _)
SumFold(s, i, acc) ==
    IF i = Len(s) THEN acc
    ELSE SumFold(s, i + 1, RatAdd(acc, AsRational(At(s, i))))

Mean(s) ==
    IF s = <<>> THEN None
    ELSE Some(RatDivInt(SumFold(s, 0, Rat(0, 1)), Len(s)))

----------------------------------------------------------------------------
(* next_min *)
NextMinInit == [v_in |-> WordMax, v_ind |-> 0, c |-> 0, v_found |-> FALSE]

(* Faulty variant: the (_, Equal) arm without the v_found initialisation *)
NextMinStepPrevNoFound(st, i, e, l_ex) ==
    IF e > l_ex /\ e < st.v_in
    THEN [v_in |-> e, v_ind |-> i, c |-> 1, v_found |-> TRUE]
    ELSE IF e = st.v_in
    THEN [st EXCEPT !.c = st.c + 1]
    ELSE st

(* Faulty variant: the sentinel compared with >= instead of > *)
NextMinStepPrevNonStrict(st, i, e, l_ex) ==
    IF e >= l_ex /\ e < st.v_in
    THEN [v_in |-> e, v_ind |-> i, c |-> 1, v_found |-> TRUE]
    ELSE IF e = st.v_in
    THEN IF ~st.v_found
         THEN [v_in |-> e, v_ind |-> i, c |-> st.c + 1, v_found |-> TRUE]
         ELSE [st EXCEPT !.c = st.c + 1]
    ELSE st

NextMinStepPrev(st, i, e, l_ex) ==
    IF e > l_ex /\ e < st.v_in
    THEN [v_in |-> e, v_ind |-> i, c |-> 1, v_found |-> TRUE]
    ELSE IF e = st.v_in
    THEN IF ~st.v_found
         THEN [v_in |-> e, v_ind |-> i, c |-> st.c + 1, v_found |-> TRUE]
         ELSE [st EXCEPT !.c = st.c + 1]
    ELSE st

(* Faulty variant: the Equal arm does not count *)
NextMinStepNoneNoCount(st, i, e) ==
    IF e < st.v_in
    THEN [st EXCEPT !.v_in = e, !.v_ind = i, !.c = 1]
    ELSE st

NextMinStepNone(st, i, e) ==
    IF e < st.v_in
    THEN [st EXCEPT !.v_in = e, !.v_ind = i, !.c = 1]
    ELSE IF e = st.v_in
    THEN [st EXCEPT !.c = st.c + 1]
    ELSE st

RECURSIVE NextMinScan(_, _, _, _)
NextMinScan(s, p, i, st) ==
    IF i = Len(s) THEN st
    ELSE NextMinScan(s, p, i + 1,
                     IF p # None THEN NextMinStepPrev(st, i, At(s, i), Unwrap(p))
                     ELSE NextMinStepNone(st, i, At(s, i)))

(* Faulty variant: the count is never cleared *)
NextMinPrevWasMaxSkipped(st, l_ex) == st

(* Faulty variant: the found value, not the sentinel, is tested against the maximum *)
NextMinPrevWasMaxFound(st, l_ex) ==
    IF st.v_in = WordMax THEN [st EXCEPT !.c = 0] ELSE st

NextMinPrevWasMax(st, l_ex) ==
    IF l_ex = st.v_in THEN [st EXCEPT !.c = 0] ELSE st

NextMin(s, p) ==
    IF s = <<>> THEN None
    ELSE LET scanned == NextMinScan(s, p, 0, NextMinInit)
             st == IF p # None THEN NextMinPrevWasMax(scanned, Unwrap(p))
                   ELSE scanned
         IN  IF st.c > 0 THEN Some(<<st.v_ind, st.c>>) ELSE None

----------------------------------------------------------------------------
(* kth_ind *)
SentinelOf(s, vi) == IF vi # None THEN Some(At(s, Unwrap(vi))) ELSE None

(* Faulty variant: items += 1 instead of items += count *)
KthBodyCountOne(s, it, vi) ==
    LET found == NextMin(s, SentinelOf(s, vi))
    IN  IF found # None
        THEN [items |-> it + 1, v_ind |-> Some(Unwrap(found)[1])]
        ELSE [items |-> it, v_ind |-> vi]

KthBody(s, it, vi) ==
    LET found == NextMin(s, SentinelOf(s, vi))
    IN  IF found # None
        THEN [items |-> it + Unwrap(found)[2], v_ind |-> Some(Unwrap(found)[1])]
        ELSE [items |-> it, v_ind |-> vi]

(* The loop run to completion.  An iteration that changes nothing repeats  *)
(* forever: the call does not return.                                      *)
Diverges == <<"diverges">>

RECURSIVE KthLoop(_, _, _, _)
KthLoop(s, kk, it, vi) ==
    IF it <= kk
    THEN LET n == KthBody(s, it, vi)
         IN  IF n.items = it /\ n.v_ind = vi THEN Diverges
             ELSE KthLoop(s, kk, n.items, n.v_ind)
    ELSE vi

KthInd(s, kk) == IF kk >= Len(s) THEN None ELSE KthLoop(s, kk, 0, None)

----------------------------------------------------------------------------
(* median *)
(* Faulty variant: v_items += count instead of v_items = count *)
MedianBodyAccum(s, it, vit, vi) ==
    LET found == NextMin(s, SentinelOf(s, vi))
    IN  IF found # None
        THEN [items |-> it + Unwrap(found)[2], v_items |-> vit + Unwrap(found)[2],
              v_ind |-> Some(Unwrap(found)[1]), p_ind |-> vi]
        ELSE [items |-> it, v_items |-> vit, v_ind |-> vi, p_ind |-> vi]

(* Faulty variant: p_ind = v_ind is missing *)
MedianBodyNoPInd(s, it, vit, vi) ==
    LET found == NextMin(s, SentinelOf(s, vi))
    IN  IF found # None
        THEN [items |-> it + Unwrap(found)[2], v_items |-> Unwrap(found)[2],
              v_ind |-> Some(Unwrap(found)[1]), p_ind |-> None]
        ELSE [items |-> it, v_items |-> vit, v_ind |-> vi, p_ind |-> None]

MedianBody(s, it, vit, vi) ==
    LET found == NextMin(s, SentinelOf(s, vi))
    IN  IF found # None
        THEN [items |-> it + Unwrap(found)[2], v_items |-> Unwrap(found)[2],
              v_ind |-> Some(Unwrap(found)[1]), p_ind |-> vi]
        ELSE [items |-> it, v_items |-> vit, v_ind |-> vi, p_ind |-> vi]

(* median_mut of the tests: sort a copy, index the middle element(s) *)
RECURSIVE Insert(_, _)
Insert(sorted, e) ==
    IF sorted = <<>> THEN <<e>>
    ELSE IF e <= Head(sorted) THEN <<e>> \o sorted
    ELSE <<Head(sorted)>> \o Insert(Tail(sorted), e)

RECURSIVE SortSlice(_)
SortSlice(s) == IF s = <<>> THEN <<>> ELSE Insert(SortSlice(Tail(s)), Head(s))

MedianMut(s) ==
    IF s = <<>> THEN None
    ELSE LET sorted == SortSlice(s)
             i == Len(s) \div 2
             m == AsRational(At(sorted, i))
         IN  IF Len(s) % 2 = 0
             THEN Some(RatDivInt(RatAdd(m, AsRational(At(sorted, i - 1))), 2))
             ELSE Some(m)

----------------------------------------------------------------------------
(* std_dev_pop, pearson_skew_median *)
RECURSIVE SqSumFold(_, _, _, _)
SqSumFold(s, a, i, acc) ==
    IF i = Len(s) THEN acc
    ELSE LET delta == RatSub(AsRational(At(s, i)), a)
         IN  SqSumFold(s, a, i + 1, RatAdd(acc, RatMul(delta, delta)))

(* Faulty variant: the is_empty check is missing *)
StdDevPopNoEmptyCheck(a, s) ==
    Some(Sqrt(RatDivInt(SqSumFold(s, a, 0, Rat(0, 1)), Len(s))))

StdDevPop(a, s) ==
    IF s = <<>> THEN None
    ELSE Some(Sqrt(RatDivInt(SqSumFold(s, a, 0, Rat(0, 1)), Len(s))))

Skew(a, m, sd) == [num |-> RatMul(Rat(3, 1), RatSub(a, m)), over |-> sd]

----------------------------------------------------------------------------
(* The caller: one public function at a time on the same borrowed slice *)
Idle == pc \in {"idle", "done"}

AvgInputs(s) ==
    {Rat(0, 1), Rat(1, 2)} \cup (IF s = <<>> THEN {} ELSE {Unwrap(Mean(s))})

Init ==
    /\ slice \in Slices
    /\ fn = "none"
    /\ pc = "idle"
    /\ k = 0
    /\ prev = None
    /\ items = 0
    /\ v_items = 0
    /\ v_ind = None
    /\ p_ind = None
    /\ med = None
    /\ k_l_v = None
    /\ avg = None
    /\ iters = 0
    /\ calls = {}
    /\ last = None
    /\ ret = None

(* Fresh locals of a call *)
Locals(kk, p, a) ==
    /\ k' = kk
    /\ prev' = p
    /\ avg' = a
    /\ items' = 0
    /\ v_items' = 0
    /\ v_ind' = None
    /\ p_ind' = None
    /\ med' = None
    /\ k_l_v' = None
    /\ iters' = 0

CallMean ==
    /\ Idle
    /\ fn' = "mean"
    /\ Locals(0, None, None)
    /\ calls' = {}
    /\ last' = None
    /\ ret' = Mean(slice)
    /\ pc' = "done"
    /\ UNCHANGED slice

CallNextMin ==
    /\ Idle
    /\ \E p \in {None} \cup {Some(w) : w \in Words} :
          /\ Locals(0, p, None)
          /\ ret' = NextMin(slice, p)
    /\ last' = IF fn = "next_min" THEN Some([prev |-> prev, ret |-> ret]) ELSE None
    /\ fn' = "next_min"
    /\ calls' = {}
    /\ pc' = "done"
    /\ UNCHANGED slice

CallKthInd ==
    /\ Idle
    /\ fn' = "kth_ind"
    /\ \E kk \in 0 .. MaxK :
          /\ Locals(kk, None, None)
          /\ IF kk >= Len(slice)
             THEN pc' = "done" /\ ret' = None
             ELSE pc' = "kth_loop" /\ ret' = None
    /\ calls' = {}
    /\ last' = None
    /\ UNCHANGED slice

Bump(n) == IF n < IterCap THEN n + 1 ELSE n

KthIter ==
    /\ pc = "kth_loop"
    /\ items <= k
    /\ LET n == KthBody(slice, items, v_ind)
       IN  /\ items' = n.items
           /\ v_ind' = n.v_ind
    /\ iters' = Bump(iters)
    /\ UNCHANGED <<slice, fn, pc, k, prev, v_items, p_ind, med, k_l_v, avg,
                   calls, last, ret>>

KthExit ==
    /\ pc = "kth_loop"
    /\ ~(items <= k)
    /\ ret' = v_ind
    /\ pc' = "done"
    /\ UNCHANGED <<slice, fn, k, prev, items, v_items, v_ind, p_ind, med,
                   k_l_v, avg, iters, calls, last>>

(* Entry of median: the empty check, k, the loop's locals *)
MedianEntry(who, a, cs) ==
    /\ fn' = who
    /\ Locals(Len(slice) \div 2, None, a)
    /\ calls' = cs
    /\ last' = None
    /\ ret' = None
    /\ pc' = IF slice = <<>> THEN "done" ELSE "median_loop"
    /\ UNCHANGED slice

CallMedian ==
    /\ Idle
    /\ MedianEntry("median", None, {})

MedianIter ==
    /\ pc = "median_loop"
    /\ items <= k
    /\ LET n == MedianBody(slice, items, v_items, v_ind)
       IN  /\ items' = n.items
           /\ v_items' = n.v_items
           /\ v_ind' = n.v_ind
           /\ p_ind' = n.p_ind
    /\ iters' = Bump(iters)
    /\ UNCHANGED <<slice, fn, pc, k, prev, med, k_l_v, avg, calls, last, ret>>

InBounds(s, o) == o # None /\ Unwrap(o) < Len(s)

(* median returns m: to the caller, or into pearson_skew_median *)
MedianReturn(m) ==
    /\ med' = m
    /\ IF fn = "median"
       THEN pc' = "done" /\ ret' = m
       ELSE pc' = "skew_std" /\ ret' = ret

(* slice[v_ind.unwrap()] as Rational, then the parity test *)
MedianFirst ==
    /\ pc = "median_loop"
    /\ ~(items <= k)
    /\ IF ~InBounds(slice, v_ind)
       THEN pc' = "panic" /\ UNCHANGED <<med, ret>>
       ELSE LET m == AsRational(At(slice, Unwrap(v_ind)))
            IN  IF Len(slice) % 2 = 0
                THEN pc' = "median_even" /\ med' = Some(m) /\ ret' = ret
                ELSE MedianReturn(Some(m))
    /\ UNCHANGED <<slice, fn, k, prev, items, v_items, v_ind, p_ind, k_l_v,
                   avg, iters, calls, last>>

(* Faulty variant: p_total_items >= k_l instead of p_total_items > k_l *)
MedianEvenOutcomeGe(p_total_items, k_l) ==
    IF p_total_items.panic \/ k_l.panic
    THEN [panic |-> TRUE, k_l_v |-> None, med |-> med]
    ELSE IF p_total_items.val >= k_l.val
    THEN IF ~InBounds(slice, p_ind)
         THEN [panic |-> TRUE, k_l_v |-> None, med |-> med]
         ELSE LET v == At(slice, Unwrap(p_ind))
              IN  [panic |-> FALSE, k_l_v |-> Some(v),
                   med |-> Some(RatDivInt(RatAdd(Unwrap(med), AsRational(v)), 2))]
    ELSE [panic |-> FALSE, k_l_v |-> None, med |-> med]

(* Outcome of the even branch for one result of each subtraction *)
MedianEvenOutcome(p_total_items, k_l) ==
    IF p_total_items.panic \/ k_l.panic
    THEN [panic |-> TRUE, k_l_v |-> None, med |-> med]
    ELSE IF p_total_items.val > k_l.val
    THEN IF ~InBounds(slice, p_ind)
         THEN [panic |-> TRUE, k_l_v |-> None, med |-> med]
         ELSE LET v == At(slice, Unwrap(p_ind))
              IN  [panic |-> FALSE, k_l_v |-> Some(v),
                   med |-> Some(RatDivInt(RatAdd(Unwrap(med), AsRational(v)), 2))]
    ELSE [panic |-> FALSE, k_l_v |-> None, med |-> med]

MedianEven ==
    /\ pc = "median_even"
    /\ \E p_total_items \in SubUsize(items, v_items), k_l \in SubUsize(k, 1) :
          LET o == MedianEvenOutcome(p_total_items, k_l)
          IN  /\ k_l_v' = o.k_l_v
              /\ IF o.panic
                 THEN pc' = "panic" /\ UNCHANGED <<med, ret>>
                 ELSE MedianReturn(o.med)
    /\ UNCHANGED <<slice, fn, k, prev, items, v_items, v_ind, p_ind, avg,
                   iters, calls, last>>

CallStdDevPop ==
    /\ Idle
    /\ fn' = "std_dev_pop"
    /\ \E a \in AvgInputs(slice) :
          /\ Locals(0, None, Some(a))
          /\ ret' = StdDevPop(a, slice)
    /\ calls' = {}
    /\ last' = None
    /\ pc' = "done"
    /\ UNCHANGED slice

(* pearson_skew_median: mean(slice)? then the call of median *)
CallSkew ==
    /\ Idle
    /\ LET a == Mean(slice)
       IN  IF a = None
           THEN /\ fn' = "pearson_skew_median"
                /\ Locals(0, None, None)
                /\ calls' = {"mean"}
                /\ last' = None
                /\ ret' = None
                /\ pc' = "done"
                /\ UNCHANGED slice
           ELSE MedianEntry("pearson_skew_median", a, {"mean", "median"})

(* median(slice)? has returned Some; std_dev_pop(&avg, slice)?; the result *)
SkewStd ==
    /\ pc = "skew_std"
    /\ calls' = calls \cup {"std_dev_pop"}
    /\ LET sd == StdDevPop(Unwrap(avg), slice)
       IN  ret' = IF sd = None THEN None
                  ELSE Some(Skew(Unwrap(avg), Unwrap(med), Unwrap(sd)))
    /\ pc' = "done"
    /\ UNCHANGED <<slice, fn, k, prev, items, v_items, v_ind, p_ind, med,
                   k_l_v, avg, iters, last>>

Next ==
    \/ CallMean
    \/ CallNextMin
    \/ CallKthInd
    \/ KthIter
    \/ KthExit
    \/ CallMedian
    \/ MedianIter
    \/ MedianFirst
    \/ MedianEven
    \/ CallStdDevPop
    \/ CallSkew
    \/ SkewStd

Spec == Init /\ [][Next]_vars

----------------------------------------------------------------------------
(* Vocabulary of the properties: counting and order over the slice, stated *)
(* with sets of indices rather than with the scans of the code.            *)
Idx(s) == 0 .. Len(s) - 1
Values(s) == {At(s, i) : i \in Idx(s)}
MinOf(S) == CHOOSE m \in S : \A x \in S : m <= x
CountEq(s, v) == Cardinality({i \in Idx(s) : At(s, i) = v})
CountLE(s, v) == Cardinality({i \in Idx(s) : At(s, i) <= v})
CountLT(s, v) == Cardinality({i \in Idx(s) : At(s, i) < v})
FirstIndexOf(s, v) == MinOf({i \in Idx(s) : At(s, i) = v})
Above(s, p) == {v \in Values(s) : p = None \/ v > Unwrap(p)}
RankValue(s, kk) ==
    CHOOSE v \in Values(s) : CountLT(s, v) <= kk /\ kk < CountLE(s, v)
InLoop == pc \in {"kth_loop", "median_loop"}
Returned(f) == fn = f /\ pc = "done"

SentinelRaised ==
    /\ Returned("next_min")
    /\ last # None
    /\ Unwrap(last).prev # None
    /\ prev # None
    /\ Unwrap(prev) > Unwrap(Unwrap(last).prev)

FoundValue(r) == At(slice, Unwrap(r)[1])

KthValue(s, kk) == At(s, Unwrap(KthInd(s, kk)))

(* C1: for every non-empty slice, median returns the median of a sorted    *)
(* copy: the middle element for odd length, the average of the two middle  *)
(* elements for even length.                                               *)
MedianMatchesSorted ==
    (Returned("median") /\ slice # <<>>) =>
        /\ ret # None
        /\ RatEq(Unwrap(ret), Unwrap(MedianMut(slice)))

MedianMatchesSortedWitness ==
    /\ Returned("median")
    /\ Len(slice) = 4
    /\ CountEq(slice, WordMax) = 2
    /\ ret # None
    /\ RatEq(Unwrap(ret), Rat(WordMax + 1, 2))

(* C2: kth_ind returns None when k >= len, and otherwise Some(i) where     *)
(* slice[i] is the element at position k of the sorted slice and i is the  *)
(* lowest index holding that value.                                        *)
KthIndIsRankFirstIndex ==
    Returned("kth_ind") =>
        IF k >= Len(slice) THEN ret = None
        ELSE /\ ret # None
             /\ Unwrap(ret) \in Idx(slice)
             /\ At(slice, Unwrap(ret)) = At(SortSlice(slice), k)
             /\ Unwrap(ret) = FirstIndexOf(slice, At(SortSlice(slice), k))

KthIndIsRankFirstIndexWitness ==
    /\ Returned("kth_ind")
    /\ k = 2
    /\ Len(slice) = 4
    /\ ret = Some(2)
    /\ At(slice, 2) = WordMax
    /\ At(slice, 3) = WordMax

(* C3: with T the values of the slice strictly greater than the sentinel   *)
(* (all values without a sentinel), next_min returns None when T is empty  *)
(* and otherwise Some((i, c)): slice[i] = min T, i the lowest index of     *)
(* that minimum, c the number of its occurrences.                          *)
NextMinIsFirstMinAbove ==
    Returned("next_min") =>
        LET T == Above(slice, prev)
        IN  IF T = {} THEN ret = None
            ELSE /\ ret # None
                 /\ Unwrap(ret)[1] \in Idx(slice)
                 /\ At(slice, Unwrap(ret)[1]) = MinOf(T)
                 /\ Unwrap(ret)[1] = FirstIndexOf(slice, MinOf(T))
                 /\ Unwrap(ret)[2] = CountEq(slice, MinOf(T))

NextMinIsFirstMinAboveWitness ==
    /\ Returned("next_min")
    /\ prev = Some(1)
    /\ prev[1] \notin Values(slice)
    /\ ret = Some(<<1, 2>>)
    /\ At(slice, 1) = WordMax
    /\ At(slice, 0) = 0

(* C4: next_min with the sentinel Some(255) returns None, whatever the     *)
(* slice holds.                                                            *)
NextMinAfterMaxIsNone ==
    (Returned("next_min") /\ prev = Some(WordMax)) => ret = None

NextMinAfterMaxIsNoneWitness ==
    /\ Returned("next_min")
    /\ prev = Some(WordMax)
    /\ CountEq(slice, WordMax) >= 2
    /\ At(slice, 0) # WordMax
    /\ ret = None

(* C5: mean, median, std_dev_pop and pearson_skew_median return None       *)
(* exactly on the empty slice, and pearson_skew_median on the empty slice  *)
(* returns from mean without entering median or std_dev_pop.               *)
NoneIffEmpty ==
    (pc = "done" /\ fn \in {"mean", "median", "std_dev_pop", "pearson_skew_median"}) =>
        /\ (ret = None) <=> (slice = <<>>)
        /\ (fn = "pearson_skew_median" /\ slice = <<>>) => calls = {"mean"}
        /\ (fn = "pearson_skew_median" /\ slice # <<>>) =>
               calls = {"mean", "median", "std_dev_pop"}

NoneIffEmptyWitness ==
    /\ Returned("pearson_skew_median")
    /\ Len(slice) >= 2
    /\ Cardinality(Values(slice)) = 1
    /\ ret # None
    /\ Unwrap(ret).over.sqrt_of.num = 0

(* C6 as stated: a next_min call whose sentinel is strictly greater than   *)
(* the sentinel of the call before it returns None or an index whose value *)
(* is strictly greater than the value found by the call before.            *)
NextMinStrictlyGreater ==
    SentinelRaised =>
        \/ ret = None
        \/ /\ Unwrap(last).ret # None
           /\ FoundValue(ret) > FoundValue(Unwrap(last).ret)

(* C6 amended: such a call returns None or an index whose value is greater *)
(* than or equal to the value found by the call before, and strictly       *)
(* greater whenever the new sentinel is at least that value.               *)
NextMinMonotonic ==
    SentinelRaised =>
        \/ ret = None
        \/ /\ Unwrap(last).ret # None
           /\ FoundValue(ret) >= FoundValue(Unwrap(last).ret)
           /\ Unwrap(prev) >= FoundValue(Unwrap(last).ret) =>
                  FoundValue(ret) > FoundValue(Unwrap(last).ret)

NextMinMonotonicWitness ==
    /\ SentinelRaised
    /\ ret # None
    /\ Unwrap(prev) >= FoundValue(Unwrap(last).ret)
    /\ FoundValue(ret) = WordMax

(* C7: the fused traversal of median agrees with separate kth_ind calls:   *)
(* slice[kth_ind(k)] for odd length, the average of ranks k-1 and k for    *)
(* even length; the value read through p_ind is the rank k-1 statistic     *)
(* when it differs from rank k, and nothing is averaged when they agree.   *)
MedianFusedEqualsKthInd ==
    (Returned("median") /\ slice # <<>>) =>
        LET kk == Len(slice) \div 2
        IN  /\ ret # None
            /\ IF Len(slice) % 2 = 1
               THEN /\ ret = Some(AsRational(KthValue(slice, kk)))
                    /\ k_l_v = None
               ELSE /\ RatEq(Unwrap(ret),
                             Rat(KthValue(slice, kk - 1) + KthValue(slice, kk), 2))
                    /\ IF KthValue(slice, kk - 1) # KthValue(slice, kk)
                       THEN k_l_v = Some(KthValue(slice, kk - 1))
                       ELSE /\ k_l_v = None
                            /\ ret = Some(AsRational(KthValue(slice, kk)))

MedianFusedEqualsKthIndWitness ==
    /\ Returned("median")
    /\ Len(slice) = 4
    /\ k_l_v = Some(0)
    /\ CountEq(slice, 0) = 2
    /\ ret # None
    /\ RatEq(Unwrap(ret), Rat(1, 2))

(* C8: in the while loop of kth_ind and of median, items is the number of  *)
(* elements <= slice[v_ind] (0 while v_ind is None) and never exceeds the  *)
(* length; the loop is left at the first found value with items >= k+1,    *)
(* whose index then holds the rank-k element.                              *)
LoopInvariant ==
    InLoop =>
        /\ items = (IF v_ind = None THEN 0
                    ELSE CountLE(slice, At(slice, Unwrap(v_ind))))
        /\ items <= Len(slice)
        /\ items >= k + 1 =>
               /\ v_ind # None
               /\ At(slice, Unwrap(v_ind)) = RankValue(slice, k)
               /\ CountLT(slice, At(slice, Unwrap(v_ind))) <= k

LoopInvariantWitness ==
    /\ pc = "kth_loop"
    /\ iters = 2
    /\ k = 1
    /\ items = 4
    /\ v_ind = Some(1)

(* C9: while items <= k, next_min returns Some with count >= 1, so every   *)
(* iteration strictly increases items, and the loop runs at most as many   *)
(* iterations as the slice has distinct values.                            *)
LoopProgress ==
    [][(InLoop /\ items <= k) =>
           LET found == NextMin(slice, SentinelOf(slice, v_ind))
           IN  /\ found # None
               /\ Unwrap(found)[2] >= 1
               /\ items' > items
               /\ iters' <= Cardinality(Values(slice))]_vars

LoopProgressWitness ==
    /\ pc = "median_loop"
    /\ iters = 3
    /\ items = 3
    /\ k = 2

(* C10: median does not panic: at loop exit v_ind is Some and in bounds;   *)
(* for even length k - 1 and items - v_items do not underflow, and when    *)
(* p_total_items > k - 1 holds p_ind is Some and in bounds.                *)
MedianNeverPanics ==
    /\ pc # "panic"
    /\ (pc = "median_loop" /\ ~(items <= k)) => InBounds(slice, v_ind)
    /\ pc = "median_even" =>
           /\ k >= 1
           /\ items >= v_items
           /\ items - v_items > k - 1 => InBounds(slice, p_ind)

MedianNeverPanicsWitness ==
    /\ pc = "median_even"
    /\ Len(slice) = 2
    /\ items - v_items > k - 1
    /\ p_ind = Some(1)

====
